---------------------------- MODULE Spec2Model ----------------------------
(***************************************************************************)
(* A model of the SCOUT job pipeline (scripts/utils.py, scrape_jobs.py,    *)
(* tailor_resume.py, outreach_draft.py, config.py).                        *)
(*                                                                         *)
(* Python strings are TLA+ strings; str.lower, str.strip and the `in`      *)
(* substring test are computed character by character.  A dict entry that  *)
(* is None or absent (the code reads both through dict.get) is a key that  *)
(* is absent from the record.  Timestamps (now_iso, today_str) and the     *)
(* descriptive fields no operation of the model reads (urls, emails,       *)
(* currency, ...) are left out of the records.                             *)
(***************************************************************************)
EXTENDS Integers, Sequences, FiniteSets, TLC

VARIABLES
    jobs_json,      \* data/jobs.json: [exists |-> FALSE] or the saved document
    outreach_json,  \* data/outreach.json, likewise
    tailored_dir,   \* the set of files written under data/tailored/
    last_run,       \* history: which run came last and what it did
    job,            \* score_relevance: the job dict passed in
    score,          \* score_relevance: the value returned
    triples,        \* generate_job_id: two (title, company, location) triples
    ids,            \* generate_job_id: the two ids returned
    new_jobs,       \* deduplicate_jobs: the batch
    existing_jobs,  \* deduplicate_jobs: the persisted list
    merged,         \* deduplicate_jobs(new_jobs, existing_jobs)
    merged_again,   \* deduplicate_jobs(new_jobs, merged)
    pc,             \* position of the function being applied
    stats_json,     \* data/stats.json: [exists |-> FALSE] or the saved snapshot
    disk,           \* save_json: the text of the file being written, as on disk
    view,           \* load_json: what a reader of that file got
    saving,         \* save_json: its data argument and the file's previous content
    runs            \* overlapping scrape runs: each run's position and locals

storeVars == <<jobs_json, outreach_json, tailored_dir, last_run>>
scoreVars == <<job, score>>
idVars    == <<triples, ids>>
mergeVars == <<new_jobs, existing_jobs, merged, merged_again>>
sideVars  == <<stats_json, disk, view, saving, runs>>
vars == <<jobs_json, outreach_json, tailored_dir, last_run, job, score, triples, ids,
          new_jobs, existing_jobs, merged, merged_again, pc,
          stats_json, disk, view, saving, runs>>

-----------------------------------------------------------------------------
(* Bounds of the model.                                                    *)

\* rows returned by the scraper in one scrape_all run, over all queries
MaxBatch == 2
\* drafts kept in outreach.json
MaxDrafts == 2
\* length of the batch handed to deduplicate_jobs
MaxNew == 2
\* length of the persisted list handed to deduplicate_jobs
MaxExisting == 2

-----------------------------------------------------------------------------
(* Python built-ins on strings and numbers.                                *)

Min(a, b) == IF a <= b THEN a ELSE b

Max(a, b) == IF a >= b THEN a ELSE b

UpperCase == "ABCDEFGHIJKLMNOPQRSTUVWXYZ"

LowerCase == "abcdefghijklmnopqrstuvwxyz"

Whitespace == {" ", "\t", "\n"}

\* one character of str.lower()
LowerChar(c) ==
    IF \E i \in 1..Len(UpperCase) : SubSeq(UpperCase, i, i) = c
    THEN LET i == CHOOSE k \in 1..Len(UpperCase) : SubSeq(UpperCase, k, k) = c
         IN  SubSeq(LowerCase, i, i)
    ELSE c

RECURSIVE Lower(_)
\* str.lower(), character by character (the string is halved to keep the
\* evaluation shallow)
Lower(s) ==
    IF Len(s) = 0 THEN ""
    ELSE IF Len(s) = 1 THEN LowerChar(s)
    ELSE LET h == Len(s) \div 2
         IN  Lower(SubSeq(s, 1, h)) \o Lower(SubSeq(s, h + 1, Len(s)))

RECURSIVE LStrip(_)
LStrip(s) == IF s # "" /\ Head(s) \in Whitespace THEN LStrip(Tail(s)) ELSE s

RECURSIVE RStrip(_)
RStrip(s) ==
    IF s # "" /\ SubSeq(s, Len(s), Len(s)) \in Whitespace
    THEN RStrip(SubSeq(s, 1, Len(s) - 1))
    ELSE s

\* str.strip()
Strip(s) == RStrip(LStrip(s))

\* kw in s
Contains(kw, s) ==
    \E i \in 1..(Len(s) - Len(kw) + 1) : SubSeq(s, i, i + Len(kw) - 1) = kw

\* (d.get(key) or "")
GetStr(d, key) == IF key \in DOMAIN d THEN d[key] ELSE ""

\* (d.get(key) or 0)
GetNum(d, key) == IF key \in DOMAIN d THEN d[key] ELSE 0

\* d.get(key), read as a truth value, for the boolean flags
GetFlag(d, key) == IF key \in DOMAIN d THEN d[key] ELSE FALSE

\* sum(1 for kw in keywords if kw in s)
Hits(keywords, s) ==
    Cardinality({i \in 1..Len(keywords) : Contains(keywords[i], s)})

-----------------------------------------------------------------------------
(* config.py                                                               *)

SEARCH_QUERIES == <<"Senior Program Manager", "Director of Growth",
    "Head of Strategy and Operations", "Senior Product Manager Growth",
    "Business Head", "Growth Strategy Lead", "Senior Business Manager",
    "Category Head", "P&L Manager", "Head of Business Operations",
    "AI Operations Manager", "Product Strategy Manager", "City Business Head",
    "Marketplace Operations Lead">>

TITLE_KEYWORDS_HIGH == <<"director", "head", "lead", "senior", "principal",
    "vp", "growth", "strategy", "program", "product", "business", "p&l",
    "marketplace", "category", "city">>

DESCRIPTION_KEYWORDS_MUST == <<"strategy", "growth", "program", "product",
    "operations", "p&l", "business", "stakeholder", "cross-functional">>

DESCRIPTION_KEYWORDS_NICE == <<"ai", "sql", "data", "analytics",
    "user acquisition", "marketplace", "food", "delivery", "consumer",
    "fintech", "tableau", "dashboard", "okr", "revenue">>

EXCLUDE_TITLE_KEYWORDS == <<"intern", "fresher", "junior", "associate",
    "entry level", "trainee", "graduate", "assistant">>

MIN_RELEVANCE_SCORE == 30

TOP_JOBS_TO_TAILOR == 20

TOP_JOBS_TO_OUTREACH == 10

MIN_SALARY_PREFERRED == 2500000

SALARY_BOOST_THRESHOLD == 3500000

-----------------------------------------------------------------------------
(* utils.score_relevance                                                   *)

\* title = (job.get("title") or "").lower()
ScoreTitle(j) == Lower(GetStr(j, "title"))

\* text = f"{title} {description}"
ScoreText(j) == ScoreTitle(j) \o " " \o Lower(GetStr(j, "description"))

\* min(40, title_hits * 12)
TitleScore(j) == Min(40, Hits(TITLE_KEYWORDS_HIGH, ScoreTitle(j)) * 12)

\* min(25, must_hits * 5)
MustScore(j) == Min(25, Hits(DESCRIPTION_KEYWORDS_MUST, ScoreText(j)) * 5)

\* min(20, nice_hits * 3)
NiceScore(j) == Min(20, Hits(DESCRIPTION_KEYWORDS_NICE, ScoreText(j)) * 3)

\* the salary boost
SalaryScore(j) ==
    LET salary == Max(GetNum(j, "min_amount"), GetNum(j, "max_amount"))
    IN  IF salary >= SALARY_BOOST_THRESHOLD THEN 15
        ELSE IF salary >= MIN_SALARY_PREFERRED THEN 8
        ELSE 0

\* any(kw in title for kw in config.EXCLUDE_TITLE_KEYWORDS)
Excluded(j) == Hits(EXCLUDE_TITLE_KEYWORDS, ScoreTitle(j)) > 0

\* a slip: the penalty is taken off the sum instead of replacing it
score_relevance_subtract(j) ==
    LET summed == TitleScore(j) + MustScore(j) + NiceScore(j) + SalaryScore(j)
    IN  Min(100, IF Excluded(j) THEN summed - 100 ELSE summed)

\* a slip: the exclusion zeroes the score before the sub-scores are added
score_relevance_prefilter(j) ==
    Min(100, TitleScore(j) + MustScore(j) + NiceScore(j) + SalaryScore(j))

\* a slip: the title keywords are looked up in title + description
score_relevance_text(j) ==
    LET summed == Min(40, Hits(TITLE_KEYWORDS_HIGH, ScoreText(j)) * 12)
                  + MustScore(j) + NiceScore(j) + SalaryScore(j)
    IN  Min(100, IF Excluded(j) THEN 0 ELSE summed)

score_relevance(j) ==
    LET summed == TitleScore(j) + MustScore(j) + NiceScore(j) + SalaryScore(j)
    IN  Min(100, IF Excluded(j) THEN 0 ELSE summed)

-----------------------------------------------------------------------------
(* utils.generate_job_id                                                   *)

\* hashlib.md5(raw.encode()).hexdigest()[:12], tabulated from the real digest
\* for every raw string the model's inputs produce
Md5Hex12 ==
    ("director of growthzomatoremote" :> "9b436bb81058")
    @@ ("growth head acme pune" :> "e78a88f8eaa3")
    @@ ("growth head acmepune" :> "8898a88621bc")
    @@ ("growth headacme  pune" :> "3453df5cfb73")
    @@ ("growth headacme pune" :> "b8cd3c1dcd5b")
    @@ ("growth headacmepune" :> "6a0006a3e445")
    @@ ("growth lead  acme pune" :> "92cd05110796")
    @@ ("growth lead  acmepune" :> "4ecba6f1dfe3")
    @@ ("growth lead acme  pune" :> "26197367510d")
    @@ ("growth lead acme pune" :> "9459b19d1daf")
    @@ ("growth lead acmepune" :> "1f7a1f85d9e1")
    @@ ("growth leadacme  pune" :> "8ed5b962afbd")
    @@ ("growth leadacme pune" :> "406c757f45bf")
    @@ ("growth leadacmepune" :> "c42fb9d04e70")
    @@ ("senior growth internacmeremote" :> "01ce7c158fa4")
    @@ ("senior program manageracmepune, india" :> "e68b9f1bebdb")

\* raw = f"{title}{company}{location}".lower().strip()
RawKey(title, company, location) == Strip(Lower(title \o company \o location))

generate_job_id(title, company, location) ==
    Md5Hex12[RawKey(title, company, location)]

-----------------------------------------------------------------------------
(* utils.deduplicate_jobs.  A Python dict is the sequence of its           *)
(* <<key, value>> items in insertion order.                                *)

\* d[k] = v: a key that is present keeps its position, a new key goes last
DictPut(d, k, v) ==
    IF \E i \in 1..Len(d) : d[i][1] = k
    THEN [i \in 1..Len(d) |-> IF d[i][1] = k THEN <<k, v>> ELSE d[i]]
    ELSE Append(d, <<k, v>>)

RECURSIVE DictPutAll(_, _)
\* for job in jobs: d[job["_id"]] = job
DictPutAll(d, jobs) ==
    IF jobs = <<>> THEN d
    ELSE DictPutAll(DictPut(d, Head(jobs)["_id"], Head(jobs)), Tail(jobs))

\* list(d.values())
DictValues(d) == [i \in 1..Len(d) |-> d[i][2]]

\* a slip: a persisted record is kept when its id comes again (setdefault)
deduplicate_jobs_keep_existing(new, existing) ==
    LET existing_map == DictPutAll(<<>>, existing)
        unseen == SelectSeq(new, LAMBDA j :
                      \A i \in 1..Len(existing) : existing[i]["_id"] # j["_id"])
    IN  DictValues(DictPutAll(existing_map, unseen))

\* a slip: the batch is returned without the persisted list
deduplicate_jobs_new_only(new, existing) == DictValues(DictPutAll(<<>>, new))

\* a slip: the batch is appended to the persisted list
deduplicate_jobs_append(new, existing) == existing \o new

\* a slip: a candidate is dropped only when the very same record is stored
deduplicate_jobs_by_record(new, existing) ==
    existing \o SelectSeq(new, LAMBDA j : \A i \in 1..Len(existing) : existing[i] # j)

\* a slip: a candidate that replaces a stored record takes over its
\* pipeline flags
deduplicate_jobs_keep_flags(new, existing) ==
    LET existing_map == DictPutAll(<<>>, existing)
        flags == {"_status", "_tailored", "_tailored_file", "_outreach_drafted",
                  "_outreach_sent"}
        carried(j) ==
            LET olds == {k \in 1..Len(existing) : existing[k]["_id"] = j["_id"]}
            IN  IF olds = {} THEN j
                ELSE LET old == existing[CHOOSE k \in olds : \A m \in olds : m <= k]
                     IN  [f \in flags \cap DOMAIN old |-> old[f]] @@ j
    IN  DictValues(DictPutAll(existing_map, [i \in 1..Len(new) |-> carried(new[i])]))

deduplicate_jobs(new, existing) ==
    LET existing_map == DictPutAll(<<>>, existing)
    IN  DictValues(DictPutAll(existing_map, new))

-----------------------------------------------------------------------------
(* scrape_jobs.scrape_all                                                  *)

\* The rows the scraper collaborator returns.  A pandas cell holding NaN is
\* a key absent from the row.
RowA1 == [title |-> "Senior Program Manager", company |-> "Acme",
          location |-> "Pune, India", description |-> "growth strategy"]

\* the same listing as RowA1 up to letter case, with a longer description
RowA2 == [title |-> "senior program manager", company |-> "ACME",
          location |-> "Pune, India",
          description |-> "growth strategy program product operations stakeholder ai sql data analytics"]

RowB == [title |-> "Director of Growth", company |-> "Zomato",
         location |-> "Remote", description |-> "p&l business operations",
         max_amount |-> 3500000]

\* an excluded title: scores 0
RowX == [title |-> "Senior Growth Intern", company |-> "Acme",
         location |-> "Remote", description |-> "growth strategy program"]

\* the title cell is NaN
RowNaN == [company |-> "Acme", location |-> "Remote", description |-> "growth"]

Rows == {RowA1, RowA2, RowB, RowX, RowNaN}

\* float(amt) if amt and not isnan(amt) else None
Amount(row, key) ==
    IF key \in DOMAIN row /\ row[key] # 0 THEN (key :> row[key]) ELSE <<>>

\* score_relevance calls .lower() on a NaN title or description (a float):
\* AttributeError
RowRaises(row) == "title" \notin DOMAIN row \/ "description" \notin DOMAIN row

\* the job dict built from one row
BuildJob(row, query) ==
    LET core == [title |-> row["title"], company |-> row["company"],
                 location |-> row["location"], description |-> row["description"]]
                @@ Amount(row, "min_amount") @@ Amount(row, "max_amount")
    IN  core @@
        [_id |-> generate_job_id(row["title"], row["company"], row["location"]),
         _search_query |-> query,
         _relevance_score |-> score_relevance(core),
         _status |-> "new",
         _tailored |-> FALSE,
         _outreach_drafted |-> FALSE,
         _outreach_sent |-> FALSE]

\* a slip: the floor is not applied
Accepted_all(j) == TRUE

\* if job["_relevance_score"] >= config.MIN_RELEVANCE_SCORE
Accepted(j) == j["_relevance_score"] >= MIN_RELEVANCE_SCORE

RECURSIVE ScrapeRows(_)
\* the body of the try block for one query and location (the model runs the
\* loops with the first query): the rows are taken in order, and the first
\* row that raises ends the block
ScrapeRows(rows) ==
    IF rows = <<>> \/ RowRaises(Head(rows)) THEN <<>>
    ELSE LET built == BuildJob(Head(rows), SEARCH_QUERIES[1])
         IN  (IF Accepted(built) THEN <<built>> ELSE <<>>) \o ScrapeRows(Tail(rows))

\* whether the try block of one query and location ends in the except clause
ScrapeFails(rows) == \E i \in 1..Len(rows) : RowRaises(rows[i])

RECURSIVE ScrapeQueries(_)
\* all_new_jobs after the loops over the queries and locations
ScrapeQueries(results) ==
    IF results = <<>> THEN <<>>
    ELSE ScrapeRows(Head(results)) \o ScrapeQueries(Tail(results))

\* seen = {}; for j in all_new_jobs: seen[j["_id"]] = j; list(seen.values())
DedupWithinRun(all_new_jobs) == DictValues(DictPutAll(<<>>, all_new_jobs))

\* load_json(filename) or the default document, then .get("jobs", [])
LoadJobs(file) == IF file.exists THEN file.jobs ELSE <<>>

\* load_json("outreach.json") or the default document, then ["drafts"]
LoadDrafts(file) == IF file.exists THEN file.drafts ELSE <<>>

\* j.get("_relevance_score", 0)
ScoreOf(j) == GetNum(j, "_relevance_score")

\* a slip: reverse=True is left out
InsertByScore_ascending(sorted, j) ==
    LET before == {i \in 1..Len(sorted) : ScoreOf(sorted[i]) <= ScoreOf(j)}
    IN  SubSeq(sorted, 1, Cardinality(before)) \o <<j>>
        \o SubSeq(sorted, Cardinality(before) + 1, Len(sorted))

\* j goes behind every element whose score is at least its own
InsertByScore(sorted, j) ==
    LET before == {i \in 1..Len(sorted) : ScoreOf(sorted[i]) >= ScoreOf(j)}
    IN  SubSeq(sorted, 1, Cardinality(before)) \o <<j>>
        \o SubSeq(sorted, Cardinality(before) + 1, Len(sorted))

RECURSIVE SortFrom(_, _)
SortFrom(sorted, jobs) ==
    IF jobs = <<>> THEN sorted
    ELSE SortFrom(InsertByScore(sorted, Head(jobs)), Tail(jobs))

\* jobs.sort(key=lambda j: j.get("_relevance_score", 0), reverse=True):
\* a stable sort, equal scores keep their order
SortByScore(jobs) == SortFrom(<<>>, jobs)

\* the first n elements: seq[:n]
Take(seq, n) == SubSeq(seq, 1, Min(n, Len(seq)))

\* the positions in jobs of the top n jobs without the flag, by score:
\* [j for j in jobs if not j.get(flag)], sorted, [:n]
TopWithout(jobs, flag, n) ==
    LET open == SelectSeq([i \in 1..Len(jobs) |->
                              [index |-> i, _relevance_score |-> ScoreOf(jobs[i]),
                               flagged |-> GetFlag(jobs[i], flag)]],
                          LAMBDA x : ~x.flagged)
        top == Take(SortByScore(open), n)
    IN  [k \in 1..Len(top) |-> top[k].index]

Range(seq) == {seq[i] : i \in 1..Len(seq)}

-----------------------------------------------------------------------------
(* tailor_resume.run_tailoring                                             *)

\* filename = f"tailored/{today_str()}_{company}_{role}_{job_id}.json"; the
\* date, company and role parts are left out
TailoredFile(j) == "tailored/" \o j["_id"] \o ".json"

\* job["_tailored"] = True; job["_tailored_file"] = filename
MarkTailored(j) ==
    ("_tailored" :> TRUE) @@ ("_tailored_file" :> TailoredFile(j)) @@ j

-----------------------------------------------------------------------------
(* outreach_draft.run_outreach                                             *)

\* draft_outreach_for_job: the draft of one job, with its three messages
DraftFor(j) ==
    [job_id |-> j["_id"],
     status |-> "pending_approval",
     messages |-> <<[type |-> "email", status |-> "pending_approval"],
                    [type |-> "linkedin_note", status |-> "draft"],
                    [type |-> "linkedin_inmail", status |-> "draft"]>>]

\* job["_outreach_drafted"] = True
MarkDrafted(j) == ("_outreach_drafted" :> TRUE) @@ j

\* send_approved_emails: every approved email message is sent (smtp_ok) or
\* marked send_failed; without Gmail credentials nothing is touched
SendApproved(drafts, credentials, smtp_ok) ==
    IF ~credentials THEN drafts
    ELSE [d \in 1..Len(drafts) |->
            [drafts[d] EXCEPT !.messages =
                [m \in 1..Len(@) |->
                    IF @[m].type = "email" /\ @[m].status = "approved"
                    THEN [@[m] EXCEPT !.status = IF smtp_ok THEN "sent" ELSE "send_failed"]
                    ELSE @[m]]]]

-----------------------------------------------------------------------------
(* Idle values of the variables a specification does not use.              *)

NoFile == [exists |-> FALSE]

StoreIdle ==
    /\ jobs_json = NoFile
    /\ outreach_json = NoFile
    /\ tailored_dir = {}
    /\ last_run = [op |-> "none"]

ScoreIdle == job = <<>> /\ score = 0

IdIdle == triples = <<>> /\ ids = <<>>

MergeIdle ==
    new_jobs = <<>> /\ existing_jobs = <<>> /\ merged = <<>> /\ merged_again = <<>>

SideIdle ==
    /\ stats_json = NoFile
    /\ disk = NoFile
    /\ view = <<>>
    /\ saving = <<>>
    /\ runs = <<>>

-----------------------------------------------------------------------------
(* score_relevance applied to job dicts drawn from a bounded set.          *)

ExampleDescription ==
    "growth strategy program product operations stakeholder ai sql data analytics"

ExampleJob == [title |-> "Senior Program Manager", description |-> ExampleDescription]

ScoreTitles == {"Senior Program Manager", "Program Manager Intern",
    "Senior Director Growth Strategy", "Senior Director Growth Strategy Intern",
    "International Sales", "Accountant", ""}

ScoreDescriptions == {ExampleDescription, "SQL and Data", "",
    "Strategy, Growth, Program, Product and Operations with AI, SQL, Data, Analytics, Tableau, Dashboard, OKR"}

ScoreAmounts == {-1, 0, 2499999, 2500000, 3499999, 3500000}

\* a field that is present with a value, or None/absent
Optional(key, values) == {<<>>} \cup {(key :> v) : v \in values}

ScoreJobs ==
    {t @@ d @@ lo @@ hi :
        t \in Optional("title", ScoreTitles),
        d \in Optional("description", ScoreDescriptions),
        lo \in Optional("min_amount", ScoreAmounts),
        hi \in Optional("max_amount", ScoreAmounts)}

ScoreInit ==
    /\ StoreIdle /\ IdIdle /\ MergeIdle /\ SideIdle
    /\ job \in ScoreJobs
    /\ score = 0
    /\ pc = "call"

ScoreRelevance ==
    /\ pc = "call"
    /\ score' = score_relevance(job)
    /\ pc' = "return"
    /\ UNCHANGED <<job, storeVars, idVars, mergeVars, sideVars>>

ScoreNext == ScoreRelevance

SpecScore == ScoreInit /\ [][ScoreNext]_vars

\* C7: for every job record (any title, description, min_amount and
\* max_amount, including missing ones) score_relevance returns an integer
\* between 0 and 100.
C7_ScoreBounded == pc = "return" => score \in 0..100

\* C7 witness: the top of the range is returned, by a job whose four
\* sub-scores are all at their caps.
C7_Witness ==
    /\ pc = "return"
    /\ TitleScore(job) = 40 /\ MustScore(job) = 25 /\ NiceScore(job) = 20
    /\ SalaryScore(job) = 15
    /\ score = 100

\* C8: whenever the lower-cased title contains a keyword of the exclusion
\* list, score_relevance returns 0, whatever the title, description and
\* salary sub-scores sum to.
C8_ExclusionDominates ==
    (pc = "return"
       /\ \E i \in 1..Len(EXCLUDE_TITLE_KEYWORDS) :
             Contains(EXCLUDE_TITLE_KEYWORDS[i], Lower(GetStr(job, "title"))))
    => score = 0

\* C8 witness: an excluded title whose sub-scores are all maximal scores 0.
C8_Witness ==
    /\ pc = "return"
    /\ Contains("intern", Lower(GetStr(job, "title")))
    /\ TitleScore(job) + MustScore(job) + NiceScore(job) + SalaryScore(job) = 100
    /\ score = 0

\* C10 as stated: the example job (title "Senior Program Manager", the two
\* phrases as description, no salary) scores 77.
C10_ExampleIs77 == (pc = "return" /\ job = ExampleJob) => score = 77

\* C10 amended: the example job scores 61: title sub-score 24 (two title
\* keywords, "senior" and "program"), must-have sub-score 25, nice-to-have
\* sub-score 12.
C10_ExampleIs61 ==
    (pc = "return" /\ job = ExampleJob)
    => /\ score = 61
       /\ TitleScore(job) = 24 /\ MustScore(job) = 25 /\ NiceScore(job) = 12
       /\ SalaryScore(job) = 0

\* C10 witness: the example job has been scored.
C10_Witness == pc = "return" /\ job = ExampleJob

-----------------------------------------------------------------------------
(* generate_job_id applied to two triples that differ only in letter case  *)
(* or in leading/trailing whitespace of a component.                       *)

IdTitles == {"Growth Lead", "growth lead", "GROWTH LEAD", " Growth Lead",
    "Growth Lead ", "Growth Head"}

IdCompanies == {"Acme", "ACME", "Acme ", " Acme"}

IdLocations == {"Pune", "PUNE", " Pune", "Pune "}

\* a and b differ at most in letter case and leading/trailing whitespace
SameUpToCaseAndTrim(a, b) == Lower(Strip(a)) = Lower(Strip(b))

IdInit ==
    /\ StoreIdle /\ ScoreIdle /\ MergeIdle /\ SideIdle
    /\ \E t1 \in IdTitles, t2 \in IdTitles, c1 \in IdCompanies,
          c2 \in IdCompanies, l1 \in IdLocations, l2 \in IdLocations :
          /\ SameUpToCaseAndTrim(t1, t2)
          /\ SameUpToCaseAndTrim(c1, c2)
          /\ SameUpToCaseAndTrim(l1, l2)
          /\ triples = <<<<t1, c1, l1>>, <<t2, c2, l2>>>>
    /\ ids = <<>>
    /\ pc = "call"

GenerateJobIds ==
    /\ pc = "call"
    /\ ids' = <<generate_job_id(triples[1][1], triples[1][2], triples[1][3]),
                generate_job_id(triples[2][1], triples[2][2], triples[2][3])>>
    /\ pc' = "return"
    /\ UNCHANGED <<triples, storeVars, scoreVars, mergeVars, sideVars>>

IdNext == GenerateJobIds

SpecId == IdInit /\ [][IdNext]_vars

\* C9: two triples that differ only in letter case or in leading/trailing
\* whitespace of title, of company or of location get the same id.
C9_IdInsensitive == pc = "return" => ids[1] = ids[2]

-----------------------------------------------------------------------------
(* deduplicate_jobs applied to a batch and a persisted list drawn from     *)
(* bounded sets, and applied again to its own result.                      *)

MergeIds == {"a", "b", "c"}

\* freshly scraped candidates
NewRecords ==
    {[_id |-> i, description |-> d, _tailored |-> FALSE] :
        i \in MergeIds, d \in {"d1", "d2"}}

\* persisted records: as scraped, or tailored since
StoredRecords ==
    NewRecords \cup
    {[_id |-> i, description |-> d, _tailored |-> TRUE, _tailored_file |-> "f"] :
        i \in MergeIds, d \in {"d1", "d2"}}

SeqsUpTo(S, n) == UNION {[1..k -> S] : k \in 0..n}

IdsOf(jobs) == {jobs[i]["_id"] : i \in 1..Len(jobs)}

\* at most one record per id
UniqueIds(jobs) ==
    \A i, k \in 1..Len(jobs) : jobs[i]["_id"] = jobs[k]["_id"] => i = k

MergeInit ==
    /\ StoreIdle /\ ScoreIdle /\ IdIdle /\ SideIdle
    /\ new_jobs \in SeqsUpTo(NewRecords, MaxNew)
    /\ existing_jobs \in {e \in SeqsUpTo(StoredRecords, MaxExisting) : UniqueIds(e)}
    /\ merged = <<>>
    /\ merged_again = <<>>
    /\ pc = "call"

Merge ==
    /\ pc = "call"
    /\ merged' = deduplicate_jobs(new_jobs, existing_jobs)
    /\ pc' = "merged"
    /\ UNCHANGED <<new_jobs, existing_jobs, merged_again, storeVars, scoreVars, idVars,
                   sideVars>>

MergeAgain ==
    /\ pc = "merged"
    /\ merged_again' = deduplicate_jobs(new_jobs, merged)
    /\ pc' = "merged_again"
    /\ UNCHANGED <<new_jobs, existing_jobs, merged, storeVars, scoreVars, idVars,
                   sideVars>>

MergeNext == Merge \/ MergeAgain

SpecMerge == MergeInit /\ [][MergeNext]_vars

\* the last record of jobs that carries this id
LastWithId(jobs, id) ==
    jobs[CHOOSE i \in 1..Len(jobs) :
            /\ jobs[i]["_id"] = id
            /\ \A k \in (i + 1)..Len(jobs) : jobs[k]["_id"] # id]

\* C2: the ids of deduplicate_jobs(new_jobs, existing_jobs) are the ids of
\* both lists; the record of an id of new_jobs is the new candidate itself
\* (the last one of the batch with that id), whole, and the record of an id
\* that only existing_jobs has is the persisted record, unchanged.
C2_MergeOverwrites ==
    pc # "call" =>
        /\ IdsOf(merged) = IdsOf(new_jobs) \cup IdsOf(existing_jobs)
        /\ \A k \in 1..Len(merged) :
              IF merged[k]["_id"] \in IdsOf(new_jobs)
              THEN merged[k] = LastWithId(new_jobs, merged[k]["_id"])
              ELSE merged[k] = LastWithId(existing_jobs, merged[k]["_id"])

\* C2 witness: a merge in which one id is in both lists with different
\* records, one id is only persisted and one id is only new.
C2_Witness ==
    /\ pc = "merged"
    /\ \E i \in 1..Len(new_jobs), k \in 1..Len(existing_jobs) :
          /\ new_jobs[i]["_id"] = existing_jobs[k]["_id"]
          /\ new_jobs[i]["description"] # existing_jobs[k]["description"]
          /\ existing_jobs[k]["_tailored"]
    /\ IdsOf(existing_jobs) \ IdsOf(new_jobs) # {}
    /\ IdsOf(new_jobs) \ IdsOf(existing_jobs) # {}

\* C3: merging the batch into the result of merging it once gives that
\* result again: the same records in the same order, one per id.
C3_MergeIdempotent ==
    pc = "merged_again" => merged_again = merged /\ UniqueIds(merged_again)

\* C3 witness: the second merge of a batch that overwrote one persisted
\* record and inserted another.
C3_Witness ==
    /\ pc = "merged_again"
    /\ IdsOf(new_jobs) \cap IdsOf(existing_jobs) # {}
    /\ IdsOf(new_jobs) \ IdsOf(existing_jobs) # {}
    /\ merged # existing_jobs

-----------------------------------------------------------------------------
(* The pipeline: scrape, tailoring and outreach runs, one at a time, from  *)
(* an empty data directory.                                                *)

RECURSIVE Batches(_)
\* what the scraper returns over one run: a sequence of non-empty results, one
\* per query and location that found something, of at most n rows in all
Batches(n) ==
    {<<>>} \cup
    UNION {{<<rows>> \o rest : rows \in [1..k -> Rows], rest \in Batches(n - k)} :
              k \in 1..n}

ScrapeInputs == Batches(MaxBatch)

Init ==
    /\ jobs_json = NoFile
    /\ outreach_json = NoFile
    /\ tailored_dir = {}
    /\ last_run = [op |-> "none"]
    /\ ScoreIdle /\ IdIdle /\ MergeIdle /\ SideIdle
    /\ pc = "idle"

\* history: the rows of the batch that were built and scored
Scored(results) ==
    UNION {{results[r][i] : i \in {k \in 1..Len(results[r]) :
                                      \A m \in 1..k : ~RowRaises(results[r][m])}} :
              r \in 1..Len(results)}

\* history: the ids of the rows of the batch that can be built and scored and
\* meet the floor, wherever they stand in their result
Due(results) ==
    UNION {{BuildJob(results[r][i], SEARCH_QUERIES[1])["_id"] :
                i \in {k \in 1..Len(results[r]) :
                          /\ ~RowRaises(results[r][k])
                          /\ Accepted(BuildJob(results[r][k], SEARCH_QUERIES[1]))}} :
              r \in 1..Len(results)}

\* scrape_all up to the merge: all_new_jobs after the deduplication within
\* the run, with what happened on the way (history)
Collect(results) ==
    LET scraped == ScrapeQueries(results)
    IN  [all_new_jobs |-> DedupWithinRun(scraped),
         dropped |-> \E row \in Scored(results) :
             BuildJob(row, SEARCH_QUERIES[1])["_relevance_score"] < MIN_RELEVANCE_SCORE,
         failed |-> \E r \in 1..Len(results) : ScrapeFails(results[r]),
         duplicate |-> ~UniqueIds(scraped),
         due |-> Due(results)]

\* the outcomes of the collection over every input of the scraper
Collected == {Collect(results) : results \in ScrapeInputs}

\* scrape_all from the merge on: load, merge, sort, save
scrape_all(c) ==
    LET all_new_jobs == c.all_new_jobs
        existing == LoadJobs(jobs_json)
        merged_list == SortByScore(deduplicate_jobs(all_new_jobs, existing))
    IN  /\ jobs_json' = [exists |-> TRUE,
                         total_jobs |-> Len(merged_list),
                         new_today |-> Len(all_new_jobs),
                         jobs |-> merged_list]
        /\ last_run' = [op |-> "scrape_all", dropped |-> c.dropped,
                        failed |-> c.failed, duplicate |-> c.duplicate,
                        replaced |-> IdsOf(all_new_jobs) \cap IdsOf(existing) # {},
                        accepted |-> IdsOf(all_new_jobs), due |-> c.due]
        /\ UNCHANGED <<outreach_json, tailored_dir, scoreVars, idVars, mergeVars, pc,
                       sideVars>>

ScrapeAll == \E c \in Collected : scrape_all(c)

\* ok: the positions of the jobs whose tailoring (the LLM calls and the save
\* of the tailored resume) did not raise
run_tailoring(ok) ==
    LET jobs == LoadJobs(jobs_json)
        to_tailor == TopWithout(jobs, "_tailored", TOP_JOBS_TO_TAILOR)
    IN  IF jobs = <<>> \/ to_tailor = <<>>
        THEN /\ ok = {}
             /\ last_run' = [op |-> "run_tailoring", to_tailor |-> 0, tailored |-> 0]
             /\ UNCHANGED <<jobs_json, outreach_json, tailored_dir>>
        ELSE /\ ok \subseteq Range(to_tailor)
             /\ tailored_dir' = tailored_dir \cup {TailoredFile(jobs[i]) : i \in ok}
             /\ jobs_json' = [jobs_json EXCEPT !.jobs =
                    [i \in 1..Len(jobs) |->
                        IF i \in ok THEN MarkTailored(jobs[i]) ELSE jobs[i]]]
             /\ last_run' = [op |-> "run_tailoring", to_tailor |-> Len(to_tailor),
                             tailored |-> Cardinality(ok)]
             /\ UNCHANGED outreach_json

RunTailoring ==
    /\ \E ok \in SUBSET (1..Len(LoadJobs(jobs_json))) : run_tailoring(ok)
    /\ UNCHANGED <<scoreVars, idVars, mergeVars, pc, sideVars>>

\* ok: the positions of the jobs whose drafting did not raise; credentials:
\* GMAIL_USER and GMAIL_APP_PASSWORD are set; smtp_ok: sending succeeds
run_outreach(ok, credentials, smtp_ok) ==
    LET jobs == LoadJobs(jobs_json)
        to_draft == TopWithout(jobs, "_outreach_drafted", TOP_JOBS_TO_OUTREACH)
        drafted == SelectSeq(to_draft, LAMBDA i : i \in ok)
        drafts == LoadDrafts(outreach_json)
                  \o [k \in 1..Len(drafted) |-> DraftFor(jobs[drafted[k]])]
    IN  IF jobs = <<>> \/ to_draft = <<>>
        THEN /\ ok = {} /\ credentials /\ smtp_ok
             /\ last_run' = [op |-> "run_outreach", to_draft |-> 0, drafted |-> 0]
             /\ UNCHANGED <<jobs_json, outreach_json>>
        ELSE /\ ok \subseteq Range(to_draft)
             /\ Len(drafts) <= MaxDrafts
             /\ outreach_json' = [exists |-> TRUE,
                                  total_drafts |-> Len(drafts),
                                  drafts |-> SendApproved(drafts, credentials, smtp_ok)]
             /\ jobs_json' = [jobs_json EXCEPT !.jobs =
                    [i \in 1..Len(jobs) |->
                        IF i \in ok THEN MarkDrafted(jobs[i]) ELSE jobs[i]]]
             /\ last_run' = [op |-> "run_outreach", to_draft |-> Len(to_draft),
                             drafted |-> Cardinality(ok)]

RunOutreach ==
    /\ \E ok \in SUBSET (1..Len(LoadJobs(jobs_json))),
          credentials \in BOOLEAN, smtp_ok \in BOOLEAN :
          run_outreach(ok, credentials, smtp_ok)
    /\ UNCHANGED <<tailored_dir, scoreVars, idVars, mergeVars, pc, sideVars>>

Next == ScrapeAll \/ RunTailoring \/ RunOutreach

Spec == Init /\ [][Next]_vars

\* the persisted jobs list
StoredJobs == LoadJobs(jobs_json)

\* C1: every record of the persisted jobs collection has a relevance score
\* of at least MIN_RELEVANCE_SCORE, after every save of every run.
C1_FloorKept ==
    \A i \in 1..Len(StoredJobs) :
        StoredJobs[i]["_relevance_score"] >= MIN_RELEVANCE_SCORE

\* C1 witness: a scrape run that scored a candidate below the floor and
\* accepted another has saved the collection.
C1_Witness ==
    /\ last_run.op = "scrape_all"
    /\ last_run.dropped
    /\ jobs_json.new_today >= 1

\* C4: the persisted jobs collection holds at most one record per id.
C4_IdsUnique == UniqueIds(StoredJobs)

\* C4 witness: a scrape run whose batch held one listing twice, for an id
\* that was already stored, has saved the collection.
C4_Witness ==
    /\ last_run.op = "scrape_all"
    /\ last_run.duplicate
    /\ last_run.replaced
    /\ jobs_json.new_today = 1

\* C5: no run removes an id from the persisted jobs collection: the id set
\* after a run contains the id set before it.
C5_NeverDeleted == [][IdsOf(StoredJobs) \subseteq IdsOf(StoredJobs')]_vars

\* C5 witness: a scrape run that brought one stored id again has saved a
\* collection that still holds the other stored id.
C5_Witness ==
    /\ last_run.op = "scrape_all"
    /\ last_run.replaced
    /\ jobs_json.new_today = 1
    /\ Len(StoredJobs) = 2

\* C6: the persisted jobs list is in non-increasing order of relevance
\* score, after scrape runs and after the tailoring and outreach runs that
\* rewrite it.
C6_SortedByScore ==
    \A i \in 1..(Len(StoredJobs) - 1) :
        ScoreOf(StoredJobs[i]) >= ScoreOf(StoredJobs[i + 1])

\* C6 witness: a tailoring or outreach run has rewritten a list of two jobs
\* of different scores, marking one of them.
C6_Witness ==
    /\ last_run.op \in {"run_tailoring", "run_outreach"}
    /\ Len(StoredJobs) = 2
    /\ ScoreOf(StoredJobs[1]) > ScoreOf(StoredJobs[2])
    /\ \E i \in 1..2 :
          GetFlag(StoredJobs[i], "_tailored") \/ GetFlag(StoredJobs[i], "_outreach_drafted")

-----------------------------------------------------------------------------
(* save_json and load_json on one file of the data directory, with a       *)
(* reader that may call load_json at any point of a save.  The file's text *)
(* is a sequence of chunks, as json.dump hands them to f.write: an opening *)
(* brace, one chunk per item, a closing brace.                             *)

MaxItems == 2

Items == {"a", "b"}

Documents == UNION {[1..n -> Items] : n \in 0..MaxItems}

\* json.dump(data, f): the chunks written for a document
JsonDump(data) == <<"{">> \o data \o <<"}">>

\* json.load(f): the document of a complete text, JSONDecodeError otherwise
JsonLoad(text) ==
    IF Len(text) >= 2 /\ text[1] = "{" /\ text[Len(text)] = "}"
        /\ \A i \in 2..(Len(text) - 1) : text[i] \in Items
    THEN [kind |-> "data", data |-> SubSeq(text, 2, Len(text) - 1)]
    ELSE [kind |-> "JSONDecodeError"]

load_json(file) ==
    IF file.exists THEN JsonLoad(file.text) ELSE [kind |-> "None"]

FileOf(data) == [exists |-> TRUE, text |-> JsonDump(data)]

SaveInit ==
    /\ StoreIdle /\ ScoreIdle /\ IdIdle /\ MergeIdle
    /\ stats_json = NoFile /\ runs = <<>>
    /\ disk \in {NoFile} \cup {FileOf(d) : d \in Documents}
    /\ \E data \in Documents : saving = [data |-> data, previous |-> disk]
    /\ view = <<>>
    /\ pc = "open"

\* open(path, "w"): the file exists and is empty from here on
SaveOpen ==
    /\ pc = "open"
    /\ disk' = [exists |-> TRUE, text |-> <<>>]
    /\ pc' = "dump"
    /\ UNCHANGED <<view, saving, stats_json, runs, storeVars, scoreVars, idVars, mergeVars>>

\* json.dump: buffered chunks reach the file, in order, some at a time
SaveWrite ==
    /\ pc = "dump"
    /\ \E n \in (Len(disk.text) + 1)..Len(JsonDump(saving.data)) :
          disk' = [disk EXCEPT !.text = SubSeq(JsonDump(saving.data), 1, n)]
    /\ UNCHANGED <<pc, view, saving, stats_json, runs, storeVars, scoreVars, idVars,
                   mergeVars>>

\* leaving the with block: the rest is flushed and the file closed
SaveClose ==
    /\ pc = "dump"
    /\ disk' = [disk EXCEPT !.text = JsonDump(saving.data)]
    /\ pc' = "done"
    /\ UNCHANGED <<view, saving, stats_json, runs, storeVars, scoreVars, idVars, mergeVars>>

\* a reader's load_json of the same file, at any point
LoadJson ==
    /\ view' = load_json(disk)
    /\ UNCHANGED <<disk, pc, saving, stats_json, runs, storeVars, scoreVars, idVars,
                   mergeVars>>

SaveNext == SaveOpen \/ SaveWrite \/ SaveClose \/ LoadJson

SpecSave == SaveInit /\ [][SaveNext]_vars

\* C11: a reader that loads the file at any point of a save gets the complete
\* previous content (or None when there was no file) or the complete new
\* content, never an empty or partly written file.
C11_AtomicReplace ==
    view # <<>> =>
        \/ view = load_json(saving.previous)
        \/ view = [kind |-> "data", data |-> saving.data]

-----------------------------------------------------------------------------
(* The pipeline, further properties.                                       *)

\* C12: a row that fails while it is built, normalized or scored is the only
\* record a scrape run loses: every other row of the run that meets the
\* floor, the later rows of the same result included, is collected, merged
\* and saved.
C12_OnlyFailedRowSkipped ==
    last_run.op = "scrape_all" =>
        /\ last_run.due \subseteq last_run.accepted
        /\ last_run.accepted \subseteq IdsOf(StoredJobs)

\* the persisted outreach drafts
StoredDrafts == LoadDrafts(outreach_json)

\* C13: after any sequence of scrape and outreach runs, the outreach drafts
\* hold at most one draft per job id, also when a job that has a draft is
\* scraped again and an outreach run follows.
C13_OneDraftPerJob ==
    \A i, k \in 1..Len(StoredDrafts) :
        StoredDrafts[i].job_id = StoredDrafts[k].job_id => i = k

-----------------------------------------------------------------------------
(* update_stats.run_stats on a data directory drawn from a bounded set.    *)
(* The aggregates over dates, sources, locations, companies and salaries   *)
(* are left out of the snapshot; the closing log entry is last_run.        *)

MaxStatJobs == 2

StatScores == {-5, 0, 29, 30, 49, 50, 69, 70, 89, 90, 100, 150}

\* stored job dicts, as far as run_stats reads them; the score may be missing
StatJobs ==
    {s @@ [_tailored |-> t] :
        s \in Optional("_relevance_score", StatScores), t \in BOOLEAN}

\* jobs.json: no file, an empty object, or a document with a jobs list
StatJobsFiles ==
    {NoFile, [exists |-> TRUE]} \cup
    {[exists |-> TRUE, total_jobs |-> Len(l), new_today |-> 0, jobs |-> l] :
        l \in UNION {[1..n -> StatJobs] : n \in 0..MaxStatJobs}}

StatDraft == DraftFor([_id |-> "e68b9f1bebdb"])

\* outreach.json: no file, one pending draft, or one draft whose email was
\* approved and sent
StatDraftsFiles ==
    {NoFile,
     [exists |-> TRUE, total_drafts |-> 1, drafts |-> <<StatDraft>>],
     [exists |-> TRUE, total_drafts |-> 1,
      drafts |-> SendApproved(<<[StatDraft EXCEPT !.messages[1].status = "approved"]>>,
                              TRUE, TRUE)]}

\* (load_json(filename) or {key: []}).get(key, [])
GetList(file, key) == IF file.exists /\ key \in DOMAIN file THEN file[key] ELSE <<>>

BucketNames == {"90-100", "70-89", "50-69", "30-49", "0-29"}

Inc(buckets, name) == [buckets EXCEPT ![name] = @ + 1]

\* a slip: the second test is an if of its own, so a score of 90 or more is
\* counted twice
AddScore_if(buckets, s) ==
    LET first == IF s >= 90 THEN Inc(buckets, "90-100") ELSE buckets
    IN  IF s >= 70 THEN Inc(first, "70-89")
        ELSE IF s >= 50 THEN Inc(first, "50-69")
        ELSE IF s >= 30 THEN Inc(first, "30-49")
        ELSE Inc(first, "0-29")

\* the if/elif/else chain over one score
AddScore(buckets, s) ==
    IF s >= 90 THEN Inc(buckets, "90-100")
    ELSE IF s >= 70 THEN Inc(buckets, "70-89")
    ELSE IF s >= 50 THEN Inc(buckets, "50-69")
    ELSE IF s >= 30 THEN Inc(buckets, "30-49")
    ELSE Inc(buckets, "0-29")

RECURSIVE CountScores(_, _)
\* for j in jobs: s = j.get("_relevance_score", 0); ...
CountScores(jobs, buckets) ==
    IF jobs = <<>> THEN buckets
    ELSE CountScores(Tail(jobs), AddScore(buckets, ScoreOf(Head(jobs))))

\* sum(1 for d in drafts for m in d.get("messages", []) if m.get("status") == status)
CountMessages(drafts, status) ==
    Cardinality({p \in UNION {{<<d, m>> : m \in 1..Len(drafts[d].messages)} :
                                 d \in 1..Len(drafts)} :
                    drafts[p[1]].messages[p[2]].status = status})

\* the stats dict of run_stats
Stats(jobs, drafts, tailored_files) ==
    LET total_jobs == Len(jobs)
        tailored_count == Cardinality({i \in 1..Len(jobs) : GetFlag(jobs[i], "_tailored")})
        outreach_sent == CountMessages(drafts, "sent")
    IN  [hero |-> [total_jobs |-> total_jobs,
                   resumes_tailored |-> tailored_count,
                   outreach_sent |-> outreach_sent,
                   outreach_pending |-> CountMessages(drafts, "pending_approval"),
                   tailored_files |-> Cardinality(tailored_files)],
         funnel |-> [discovered |-> total_jobs,
                     relevant_50plus |-> Cardinality({i \in 1..Len(jobs) :
                         ScoreOf(jobs[i]) >= 50}),
                     tailored |-> tailored_count,
                     outreach_drafted |-> Len(drafts),
                     outreach_sent |-> outreach_sent],
         score_distribution |-> CountScores(jobs, [b \in BucketNames |-> 0])]

\* save_json(filename, data), seen from the file called name
SavedAs(name, file, filename, data) ==
    IF filename = name THEN [exists |-> TRUE] @@ data ELSE file

\* a slip: the snapshot is saved under the name of the jobs collection
StatsFile_jobs == "jobs.json"

\* the file run_stats saves
StatsFile == "stats.json"

StatsInit ==
    /\ jobs_json \in StatJobsFiles
    /\ outreach_json \in StatDraftsFiles
    /\ tailored_dir = {}
    /\ last_run = [op |-> "none"]
    /\ ScoreIdle /\ IdIdle /\ MergeIdle
    /\ stats_json = NoFile
    /\ disk = NoFile /\ view = <<>> /\ saving = <<>> /\ runs = <<>>
    /\ pc = "idle"

run_stats ==
    LET jobs == GetList(jobs_json, "jobs")
        drafts == GetList(outreach_json, "drafts")
        stats == Stats(jobs, drafts, tailored_dir)
    IN  /\ jobs_json' = SavedAs("jobs.json", jobs_json, StatsFile, stats)
        /\ outreach_json' = SavedAs("outreach.json", outreach_json, StatsFile, stats)
        /\ stats_json' = SavedAs("stats.json", stats_json, StatsFile, stats)
        /\ last_run' = [op |-> "run_stats", total_jobs |-> stats.hero.total_jobs,
                        tailored |-> stats.hero.resumes_tailored,
                        outreach_sent |-> stats.hero.outreach_sent]
        /\ UNCHANGED <<tailored_dir, scoreVars, idVars, mergeVars, pc,
                       disk, view, saving, runs>>

StatsNext == run_stats

SpecStats == StatsInit /\ [][StatsNext]_vars

BucketSum(buckets) ==
    buckets["90-100"] + buckets["70-89"] + buckets["50-69"] + buckets["30-49"]
    + buckets["0-29"]

\* C14: in the snapshot run_stats saves, the five score buckets sum to the
\* number of stored jobs, whatever the scores are (a missing score counts as
\* 0): every job is counted in exactly one bucket.
C14_BucketsPartition ==
    stats_json.exists =>
        /\ DOMAIN stats_json.score_distribution = BucketNames
        /\ \A b \in BucketNames : stats_json.score_distribution[b] \in Nat
        /\ BucketSum(stats_json.score_distribution) = Len(GetList(jobs_json, "jobs"))
        /\ stats_json.hero.total_jobs = Len(GetList(jobs_json, "jobs"))

\* C14 witness: a snapshot over two jobs, one without a score and one with a
\* score of 90 or more.
C14_Witness ==
    /\ stats_json.exists
    /\ last_run.op = "run_stats"
    /\ Len(GetList(jobs_json, "jobs")) = 2
    /\ "_relevance_score" \notin DOMAIN jobs_json.jobs[1]
    /\ ScoreOf(jobs_json.jobs[2]) >= 90
    /\ stats_json.score_distribution["0-29"] = 1
    /\ stats_json.score_distribution["90-100"] = 1

\* C15: run_stats leaves jobs.json and outreach.json as they were; it writes
\* the stats snapshot (and the log) only.
C15_StatsReadOnly ==
    [][jobs_json' = jobs_json /\ outreach_json' = outreach_json
       /\ tailored_dir' = tailored_dir]_vars

\* C15 witness: run_stats has saved a snapshot of a data directory that holds
\* two jobs and a draft.
C15_Witness ==
    /\ stats_json.exists
    /\ last_run.op = "run_stats"
    /\ Len(GetList(jobs_json, "jobs")) = 2
    /\ Len(GetList(outreach_json, "drafts")) = 1
    /\ stats_json.hero.total_jobs = 2
    /\ stats_json.funnel.outreach_drafted = 1

-----------------------------------------------------------------------------
(* The pipeline: what a scrape run does to a record it brings again.       *)

\* the flags of a job dict as scrape_all builds it
Fresh(j) ==
    /\ j["_status"] = "new"
    /\ ~GetFlag(j, "_tailored")
    /\ ~GetFlag(j, "_outreach_drafted")
    /\ ~GetFlag(j, "_outreach_sent")
    /\ "_tailored_file" \notin DOMAIN j

\* C16: when a scrape run accepts a candidate whose id is stored with
\* _tailored or _outreach_drafted set, the record stored under that id after
\* the run has fresh flags: not tailored, no outreach drafted or sent, status
\* new, no tailored file.
C16_FlagsLostOnRescrape ==
    [][last_run'.op = "scrape_all" =>
          \A i \in 1..Len(StoredJobs) :
              (/\ GetFlag(StoredJobs[i], "_tailored")
                    \/ GetFlag(StoredJobs[i], "_outreach_drafted")
               /\ StoredJobs[i]["_id"] \in last_run'.accepted)
              => \E k \in 1..Len(StoredJobs') :
                    /\ StoredJobs'[k]["_id"] = StoredJobs[i]["_id"]
                    /\ Fresh(StoredJobs'[k])]_vars

\* C16 witness: a scrape run has accepted a job that has a tailored resume
\* and an outreach draft from earlier runs, and its stored record is fresh.
C16_Witness ==
    /\ last_run.op = "scrape_all"
    /\ \E i \in 1..Len(StoredJobs) :
          /\ StoredJobs[i]["_id"] \in last_run.accepted
          /\ TailoredFile(StoredJobs[i]) \in tailored_dir
          /\ \E d \in 1..Len(StoredDrafts) : StoredDrafts[d].job_id = StoredJobs[i]["_id"]
          /\ Fresh(StoredJobs[i])

-----------------------------------------------------------------------------
(* Two scrape runs whose load, merge and save overlap.  Each run has       *)
(* collected its batch; it loads jobs.json, and later merges, sorts and    *)
(* saves.  last_run.trace is the order of these steps (history).           *)

RaceRuns == {1, 2}

\* all_new_jobs of a run, over every input of the scraper
RaceBatches == {c.all_new_jobs : c \in Collected}

\* jobs.json before the runs: no file, or one stored job
RaceFiles ==
    {NoFile,
     [exists |-> TRUE, total_jobs |-> 1, new_today |-> 1,
      jobs |-> <<BuildJob(RowB, SEARCH_QUERIES[1])>>]}

RaceInit ==
    /\ jobs_json \in RaceFiles
    /\ outreach_json = NoFile
    /\ tailored_dir = {}
    /\ last_run = [op |-> "scrape_all", trace |-> <<>>]
    /\ ScoreIdle /\ IdIdle /\ MergeIdle
    /\ stats_json = NoFile /\ disk = NoFile /\ view = <<>> /\ saving = <<>>
    /\ runs \in [RaceRuns -> {[pc |-> "load", all_new_jobs |-> b, existing_jobs |-> <<>>,
                               saved |-> {}] : b \in RaceBatches}]
    /\ pc = "idle"

\* existing_data = load_json("jobs.json") or {...}; existing_jobs = ...
RaceLoad(p) ==
    /\ runs[p].pc = "load"
    /\ runs' = [runs EXCEPT ![p].pc = "save", ![p].existing_jobs = LoadJobs(jobs_json)]
    /\ last_run' = [last_run EXCEPT !.trace = Append(@, <<p, "load">>)]
    /\ UNCHANGED <<jobs_json, outreach_json, tailored_dir, scoreVars, idVars, mergeVars, pc,
                   stats_json, disk, view, saving>>

\* a guard: the run merges into the list stored at the time of its save
MergedList_reload(run, file) ==
    SortByScore(deduplicate_jobs(run.all_new_jobs, LoadJobs(file)))

\* merged = deduplicate_jobs(all_new_jobs, existing_jobs); merged.sort(...)
MergedList(run, file) ==
    SortByScore(deduplicate_jobs(run.all_new_jobs, run.existing_jobs))

\* the merge, the sort and save_json("jobs.json", ...)
RaceSave(p) ==
    /\ runs[p].pc = "save"
    /\ LET merged_list == MergedList(runs[p], jobs_json)
       IN  /\ jobs_json' = [exists |-> TRUE,
                            total_jobs |-> Len(merged_list),
                            new_today |-> Len(runs[p].all_new_jobs),
                            jobs |-> merged_list]
           /\ runs' = [runs EXCEPT ![p].pc = "done", ![p].saved = IdsOf(merged_list)]
    /\ last_run' = [last_run EXCEPT !.trace = Append(@, <<p, "save">>)]
    /\ UNCHANGED <<outreach_json, tailored_dir, scoreVars, idVars, mergeVars, pc,
                   stats_json, disk, view, saving>>

RaceNext == \E p \in RaceRuns : RaceLoad(p) \/ RaceSave(p)

SpecRace == RaceInit /\ [][RaceNext]_vars

\* both runs are done, and both had loaded before either saved
Overlapped ==
    /\ Len(last_run.trace) = 4
    /\ last_run.trace[1][2] = "load" /\ last_run.trace[2][2] = "load"

FirstSaver == last_run.trace[3][1]

LastSaver == last_run.trace[4][1]

\* C17: the load, merge and save of scrape_all are not guarded.  When two
\* runs overlap, both loading before either saves, the collection left on
\* disk is the last saver's merge into what it had loaded: it holds the ids
\* that run loaded and collected and no other, so a record only the first
\* saver had merged and saved is absent from it.
C17_LostUpdate ==
    Overlapped =>
        IdsOf(StoredJobs) = IdsOf(runs[LastSaver].existing_jobs)
                            \cup IdsOf(runs[LastSaver].all_new_jobs)

\* C17 witness: two runs have overlapped, and an id that the first saver had
\* merged and saved is not in the collection on disk.
C17_Witness ==
    /\ Overlapped
    /\ \E id \in runs[FirstSaver].saved : id \notin IdsOf(StoredJobs)

=============================================================================
